---- MODULE Spec2Model ----
(***************************************************************************)
(* MultipleVirtualList (packages/react-components): the composite scroll   *)
(* coordinator.  One mounted instance of the component is modelled: the    *)
(* props of its first and of its latest render, its React state (_height,  *)
(* scrollTop), its refs (divRef, currentFetchIndex), the scroll container, *)
(* the throttle instance that the memoised onScroll holds, and a clock.    *)
(*                                                                         *)
(* Segment indices are the 0-based indices of the source.  A renderConfig  *)
(* is a sequence with one BOOLEAN per segment: whether the segment's       *)
(* fetchMore is a function.                                                *)
(***************************************************************************)
EXTENDS Integers, Sequences, FiniteSets, TLC

\* ---- bounds of the model ------------------------------------------------
MaxSegments == 3
MaxHookless == 1
MaxOffset == 1
MaxHeight == 1
TimeStep == 100

\* ---- program constants --------------------------------------------------
DefaultSrcollInterval == 200

VARIABLES
    phase,              \* "rendered": first render done, not committed;
                        \* "mounted"; "unmounted"
    first,              \* the props the first render closed over
    props,              \* the props of the latest render
    _height,            \* useState(0)
    scrollTop,          \* useState(0)
    divRef,             \* divRef.current is attached
    divScrollTop,       \* scroll position of the container element
    divTarget,          \* where a smooth scroll of the container is heading
                        \* (Never when none is going on)
    currentFetchIndex,  \* currentFetchIndex.current
    throttleAge,        \* first-render throttle: time since its last call of
                        \* fn (Never before the first), counted up to Horizon
    fault,              \* a TypeError was raised by a handler
    ev,                 \* history: the last event and what it did
    fetchAge,           \* history: time since the last scroll-driven
                        \* fetchMore invocation, counted like throttleAge
    lastRaw             \* history: e.currentTarget.scrollTop of the last
                        \* scroll event delivered (Never before the first)

vars == <<phase, first, props, _height, scrollTop, divRef, divScrollTop,
          divTarget, currentFetchIndex, throttleAge, fault, ev, fetchAge,
          lastRaw>>

Never == -1
NoSegment == -1

\* ---- renderConfig -------------------------------------------------------
RECURSIVE Hookless(_)
Hookless(cfg) ==
    IF cfg = <<>> THEN 0
    ELSE (IF cfg[Len(cfg)] THEN 0 ELSE 1) + Hookless(SubSeq(cfg, 1, Len(cfg) - 1))

MvlConfig ==
    { cfg \in UNION { [1..n -> BOOLEAN] : n \in 0..MaxSegments } :
        Hookless(cfg) <= MaxHookless }

Intervals == { TimeStep, DefaultSrcollInterval }

\* renderConfig[i] is an element (not undefined)
HasItem(cfg, i) == i \in 0..(Len(cfg) - 1)

\* typeof renderConfig[i].fetchMore === 'function', for an existing element
IsFunction(cfg, i) == cfg[i + 1]

\* renderConfig[i]?.fetchMore (optional = TRUE) or renderConfig[i].fetchMore:
\* "function", "undefined", or "TypeError" when a property of undefined is read
typeofFetchMore(cfg, i, optional) ==
    IF HasItem(cfg, i)
    THEN (IF IsFunction(cfg, i) THEN "function" ELSE "undefined")
    ELSE (IF optional THEN "undefined" ELSE "TypeError")

\* the props a render reads.  srcollInterval is read by throttle(), and only
\* the first render's throttle instance is ever called (see onScroll), so it
\* is kept with the first render only.
Props ==
    [renderConfig : MvlConfig, fetchOnScroll : BOOLEAN, fetchOnBottom : BOOLEAN]

\* ages at and above the longest interval are not distinguished
Horizon == IF TimeStep > DefaultSrcollInterval THEN TimeStep
           ELSE DefaultSrcollInterval

Older(age) ==
    IF age = Never THEN Never
    ELSE IF age + TimeStep > Horizon THEN Horizon ELSE age + TimeStep

\* what a handler did: the segment whose fetchMore it invoked (or NoSegment)
\* and whether it raised
Outcome(seg, raised) == [called |-> seg, throws |-> raised]

\* gap: for a scroll event that invoked a fetchMore, the time since the
\* scroll-driven invocation before it
Event(kind, index, before, out, gap) ==
    [kind |-> kind, index |-> index, before |-> before,
     called |-> out.called, gap |-> gap]

Nothing == Outcome(NoSegment, FALSE)

\* ---- the component ------------------------------------------------------
\* variant: the value is stored without the upper clamp
setCurrentFetchIndex_unclamped(cfg, val) == val

\* variant: the stored value is never lowered
setCurrentFetchIndex_ratchet(cfg, val) ==
    LET clamped == IF val > Len(cfg) - 1 THEN Len(cfg) - 1 ELSE val IN
    IF clamped < currentFetchIndex THEN currentFetchIndex ELSE clamped

\* setCurrentFetchIndex of a render whose renderConfig is cfg: the value stored
setCurrentFetchIndex(cfg, val) ==
    IF val > Len(cfg) - 1 THEN Len(cfg) - 1 ELSE val

\* variant: the index is read once, at the first render, and stays 0
scrollFetch_staleIndex(cfg, fos, i) ==
    IF fos /\ typeofFetchMore(cfg, 0, TRUE) = "function"
    THEN Outcome(0, FALSE) ELSE Nothing

\* variant: fetchMore is called without the test that it is a function
scrollFetch_unguarded(cfg, fos, i) ==
    IF ~fos THEN Nothing
    ELSE IF typeofFetchMore(cfg, i, FALSE) = "function" THEN Outcome(i, FALSE)
    ELSE Outcome(NoSegment, TRUE)

\* variant: the fetchOnScroll flag is not tested
scrollFetch_ignoresFlag(cfg, fos, i) ==
    IF typeofFetchMore(cfg, i, TRUE) = "function" THEN Outcome(i, FALSE)
    ELSE Outcome(NoSegment, FALSE)

\* variant: the element is read without optional chaining
scrollFetch_noOptionalChaining(cfg, fos, i) ==
    IF ~fos THEN Nothing
    ELSE LET t == typeofFetchMore(cfg, i, FALSE) IN
         IF t = "TypeError" THEN Outcome(NoSegment, TRUE)
         ELSE IF t = "function" THEN Outcome(i, FALSE)
         ELSE Nothing

\* scrollFetch of a render with renderConfig cfg and fetchOnScroll fos, run
\* while currentFetchIndex.current = i
scrollFetch(cfg, fos, i) ==
    IF ~fos THEN Nothing
    ELSE LET t == typeofFetchMore(cfg, i, TRUE) IN
         IF t = "TypeError" THEN Outcome(NoSegment, TRUE)
         ELSE IF t = "function" THEN Outcome(i, FALSE)
         ELSE Nothing

\* throttle(fn, interval): a call of the wrapper calls fn iff fn was not called
\* during the interval before it (leading edge, the other calls are dropped);
\* age is the time since the wrapper last called fn
throttleOpen(age, interval) ==
    age = Never \/ age >= interval

\* variant: onScroll calls scrollFetch itself, not the throttled wrapper
throttledScrollFetch_direct ==
    [ran |-> TRUE,
     out |-> IF first.fetchOnScroll
                /\ typeofFetchMore(first.renderConfig, currentFetchIndex, TRUE)
                     = "function"
             THEN Outcome(currentFetchIndex, FALSE) ELSE Nothing]

\* variant: onScroll builds the throttled wrapper and never calls it
throttledScrollFetch_notCalled == [ran |-> FALSE, out |-> Nothing]

\* variant: onScroll reaches the scrollFetch of the latest render
throttledScrollFetch_latestProps ==
    IF throttleOpen(throttleAge, first.srcollInterval)
    THEN [ran |-> TRUE,
          out |-> scrollFetch(props.renderConfig, props.fetchOnScroll,
                              currentFetchIndex)]
    ELSE [ran |-> FALSE, out |-> Nothing]

\* the throttle instance and the scrollFetch that onScroll calls: onScroll is
\* memoised with no dependencies, so they are those of the first render
throttledScrollFetch ==
    IF throttleOpen(throttleAge, first.srcollInterval)
    THEN [ran |-> TRUE,
          out |-> scrollFetch(first.renderConfig, first.fetchOnScroll,
                              currentFetchIndex)]
    ELSE [ran |-> FALSE, out |-> Nothing]

\* variant: the bottom-triggered fetch goes through the scroll throttle
onBottom_throttled(p, index, cur) ==
    IF p.fetchOnBottom
    THEN [index |-> cur,
          out |-> IF HasItem(p.renderConfig, index)
                     /\ IsFunction(p.renderConfig, index)
                     /\ (throttleAge = Never \/ throttleAge >= first.srcollInterval)
                  THEN Outcome(index, FALSE) ELSE Nothing]
    ELSE [index |-> IF index + 1 > Len(p.renderConfig) - 1
                    THEN Len(p.renderConfig) - 1 ELSE index + 1,
          out |-> Nothing]

\* variant: the edge handler fetches and advances, whatever fetchOnBottom is
onBottom_fetchesToo(p, index, cur) ==
    [index |-> IF p.fetchOnBottom THEN cur
               ELSE IF index + 1 > Len(p.renderConfig) - 1
                    THEN Len(p.renderConfig) - 1 ELSE index + 1,
     out |-> IF HasItem(p.renderConfig, index) /\ IsFunction(p.renderConfig, index)
             THEN Outcome(index, FALSE) ELSE Nothing]

\* variant: the bottom-triggered fetch also moves the index on
onBottom_alsoAdvances(p, index, cur) ==
    [index |-> IF index + 1 > Len(p.renderConfig) - 1
               THEN Len(p.renderConfig) - 1 ELSE index + 1,
     out |-> IF p.fetchOnBottom /\ HasItem(p.renderConfig, index)
                /\ IsFunction(p.renderConfig, index)
             THEN Outcome(index, FALSE) ELSE Nothing]

\* the handler onBottom(index) of the latest render, as wired to onBottom
onBottom(p, index, cur) ==
    IF p.fetchOnBottom
    THEN [index |-> cur,
          out |-> IF HasItem(p.renderConfig, index)
                     /\ typeofFetchMore(p.renderConfig, index, FALSE) = "function"
                  THEN Outcome(index, FALSE) ELSE Nothing]
    ELSE [index |-> setCurrentFetchIndex(p.renderConfig, index + 1),
          out |-> Nothing]

\* variant: the segments are rendered before the height is measured
Rendered_ungated == phase = "mounted"

\* the segments are rendered (and can signal) only once _height is non-zero
Rendered == phase = "mounted" /\ _height # 0

Segments == 0..(Len(props.renderConfig) - 1)

\* the MVirtualList children of the latest render, by index, with the props
\* outerHeight and scrollTop they are given
Children ==
    IF Rendered
    THEN [index \in Segments |-> [outerHeight |-> _height, scrollTop |-> scrollTop]]
    ELSE [index \in {} |-> [outerHeight |-> 0, scrollTop |-> 0]]

Init ==
    /\ phase = "rendered"
    /\ props \in Props
    /\ \E interval \in Intervals :
          first = [renderConfig |-> props.renderConfig,
                   fetchOnScroll |-> props.fetchOnScroll,
                   srcollInterval |-> interval]
    /\ _height = 0
    /\ scrollTop = 0
    /\ divRef = FALSE
    /\ divScrollTop = 0
    /\ divTarget = Never
    /\ currentFetchIndex = 0
    /\ throttleAge = Never
    /\ fault = FALSE
    /\ ev = Event("init", NoSegment, 0, Nothing, Never)
    /\ fetchAge = Never
    /\ lastRaw = Never

\* commit of the first render: the div is attached to divRef, the imperative
\* handle is created, and the effect stores the measured height
Mount(h) ==
    /\ phase = "rendered"
    /\ phase' = "mounted"
    /\ divRef' = TRUE
    /\ _height' = h
    /\ ev' = Event("measure", NoSegment, currentFetchIndex, Nothing, Never)
    /\ UNCHANGED <<first, props, scrollTop, divScrollTop, currentFetchIndex,
                   throttleAge, fault, fetchAge, lastRaw, divTarget>>

\* the host renders the component again with other props
Rerender(p) ==
    /\ phase = "mounted"
    /\ p # props
    /\ props' = p
    /\ ev' = Event("render", NoSegment, currentFetchIndex, Nothing, Never)
    /\ UNCHANGED <<phase, first, _height, scrollTop, divRef, divScrollTop,
                   currentFetchIndex, throttleAge, fault, fetchAge, lastRaw, divTarget>>

\* the user moves the container's scroll position
UserScroll(v) ==
    /\ phase = "mounted"
    /\ v # divScrollTop
    /\ divScrollTop' = v
    /\ divTarget' = Never
    /\ UNCHANGED <<phase, first, props, _height, scrollTop, divRef,
                   currentFetchIndex, throttleAge, fault, ev, fetchAge, lastRaw>>

\* variant: setScrollTop is throttled together with the fetch
OnScroll_throttlesOffset ==
    /\ phase = "mounted"
    /\ LET r == IF throttleAge = Never \/ throttleAge >= first.srcollInterval
                THEN [ran |-> TRUE,
                      out |-> IF first.fetchOnScroll
                                 /\ typeofFetchMore(first.renderConfig,
                                                    currentFetchIndex, TRUE)
                                      = "function"
                              THEN Outcome(currentFetchIndex, FALSE)
                              ELSE Nothing]
                ELSE [ran |-> FALSE, out |-> Nothing] IN
        /\ scrollTop' = IF r.ran THEN divScrollTop ELSE scrollTop
        /\ throttleAge' = IF r.ran THEN 0 ELSE throttleAge
        /\ fault' = (fault \/ r.out.throws)
        /\ fetchAge' = IF r.out.called = NoSegment THEN fetchAge ELSE 0
        /\ ev' = Event("scroll", NoSegment, currentFetchIndex, r.out,
                       IF r.out.called = NoSegment THEN Never ELSE fetchAge)
        /\ lastRaw' = divScrollTop
    /\ UNCHANGED <<phase, first, props, _height, divRef, divScrollTop,
                   currentFetchIndex, divTarget>>

\* a scroll event of the container is delivered to onScroll
OnScroll ==
    /\ phase = "mounted"
    /\ LET r == throttledScrollFetch IN
        /\ scrollTop' = divScrollTop
        /\ throttleAge' = IF r.ran THEN 0 ELSE throttleAge
        /\ fault' = (fault \/ r.out.throws)
        /\ fetchAge' = IF r.out.called = NoSegment THEN fetchAge ELSE 0
        /\ ev' = Event("scroll", NoSegment, currentFetchIndex, r.out,
                       IF r.out.called = NoSegment THEN Never ELSE fetchAge)
        /\ lastRaw' = divScrollTop
    /\ UNCHANGED <<phase, first, props, _height, divRef, divScrollTop,
                   currentFetchIndex, divTarget>>

\* segment index signals that its last item is visible
Bottom(index) ==
    /\ Rendered
    /\ index \in Segments
    /\ LET r == onBottom(props, index, currentFetchIndex) IN
        /\ currentFetchIndex' = r.index
        /\ ev' = Event("bottom", index, currentFetchIndex, r.out, Never)
    /\ UNCHANGED <<phase, first, props, _height, scrollTop, divRef,
                   divScrollTop, throttleAge, fault, fetchAge, lastRaw, divTarget>>

\* variant: onLeave is given onBottom(index) whatever fetchOnBottom is
Leave_wired(index) ==
    /\ Rendered
    /\ index \in Segments
    /\ LET r == onBottom(props, index, currentFetchIndex) IN
        /\ currentFetchIndex' = r.index
        /\ ev' = Event("leave", index, currentFetchIndex, r.out, Never)
    /\ UNCHANGED <<phase, first, props, _height, scrollTop, divRef,
                   divScrollTop, throttleAge, fault, fetchAge, lastRaw, divTarget>>

\* segment index signals that it was scrolled past; onLeave is undefined when
\* fetchOnBottom is set
Leave(index) ==
    /\ Rendered
    /\ index \in Segments
    /\ LET r == IF props.fetchOnBottom
                THEN [index |-> currentFetchIndex, out |-> Nothing]
                ELSE onBottom(props, index, currentFetchIndex) IN
        /\ currentFetchIndex' = r.index
        /\ ev' = Event("leave", index, currentFetchIndex, r.out, Never)
    /\ UNCHANGED <<phase, first, props, _height, scrollTop, divRef,
                   divScrollTop, throttleAge, fault, fetchAge, lastRaw, divTarget>>

\* variant: the animated call builds its options without the target
scrollToConfig_dropsTop(val, config) ==
    IF config.animation THEN [top |-> 0, behavior |-> "smooth"]
    ELSE [top |-> val, behavior |-> "auto"]

\* the options scrollTo passes to the container
scrollToConfig(val, config) ==
    IF config.animation THEN [top |-> val, behavior |-> "smooth"]
    ELSE [top |-> val, behavior |-> "auto"]

\* element.scrollTo(options) of the container, as the browser performs it:
\* behavior "smooth" starts a scroll towards top, any other sets the position
\* at once; either one aborts a smooth scroll that was going on
elementScrollTo(options) ==
    IF options.behavior = "smooth" /\ options.top # divScrollTop
    THEN [position |-> divScrollTop, target |-> options.top]
    ELSE [position |-> options.top, target |-> Never]

\* history record of a call of the handle's scrollTo, with its arguments
ScrollToEvent(val, config) ==
    [kind |-> "scrollTo", index |-> NoSegment, before |-> currentFetchIndex,
     called |-> NoSegment, gap |-> Never,
     val |-> val, animation |-> config.animation]

\* variant: scrollTo is called on divRef.current without the null test
ScrollTo_unguarded(val, config) ==
    /\ phase \in {"mounted", "unmounted"}
    /\ LET r == IF divRef THEN elementScrollTo(scrollToConfig(val, config))
                ELSE [position |-> divScrollTop, target |-> divTarget] IN
        /\ divScrollTop' = r.position
        /\ divTarget' = r.target
    /\ fault' = (fault \/ ~divRef)
    /\ ev' = ScrollToEvent(val, config)
    /\ UNCHANGED <<phase, first, props, _height, scrollTop, divRef,
                   currentFetchIndex, throttleAge, fetchAge, lastRaw>>

\* the imperative handle's scrollTo
ScrollTo(val, config) ==
    /\ phase \in {"mounted", "unmounted"}
    /\ LET r == IF divRef THEN elementScrollTo(scrollToConfig(val, config))
                ELSE [position |-> divScrollTop, target |-> divTarget] IN
        /\ divScrollTop' = r.position
        /\ divTarget' = r.target
    /\ ev' = ScrollToEvent(val, config)
    /\ UNCHANGED <<phase, first, props, _height, scrollTop, divRef,
                   currentFetchIndex, throttleAge, fault, fetchAge, lastRaw>>

\* the browser moves the container one step along a smooth scroll
Animate ==
    /\ phase = "mounted"
    /\ divTarget # Never
    /\ divScrollTop' = IF divTarget > divScrollTop THEN divScrollTop + 1
                       ELSE divScrollTop - 1
    /\ divTarget' = IF divScrollTop' = divTarget THEN Never ELSE divTarget
    /\ UNCHANGED <<phase, first, props, _height, scrollTop, divRef,
                   currentFetchIndex, throttleAge, fault, ev, fetchAge, lastRaw>>

\* the component is removed: React detaches the div from divRef
Unmount ==
    /\ phase = "mounted"
    /\ phase' = "unmounted"
    /\ divRef' = FALSE
    /\ divTarget' = Never
    /\ ev' = Event("unmount", NoSegment, currentFetchIndex, Nothing, Never)
    /\ UNCHANGED <<first, props, _height, scrollTop, divScrollTop,
                   currentFetchIndex, throttleAge, fault, fetchAge, lastRaw>>

\* TimeStep time units pass
Tick ==
    /\ phase = "mounted"
    /\ throttleAge' = Older(throttleAge)
    /\ fetchAge' = Older(fetchAge)
    /\ <<throttleAge', fetchAge'>> # <<throttleAge, fetchAge>>
    /\ UNCHANGED <<phase, first, props, _height, scrollTop, divRef,
                   divScrollTop, currentFetchIndex, fault, ev, lastRaw, divTarget>>

Offsets == 0..MaxOffset

\* getBoundingClientRect().height of the container: none or some
Heights == {0, MaxHeight}

\* the instance under a host that renders it with the same props throughout
Next ==
    \/ \E h \in Heights : Mount(h)
    \/ \E v \in Offsets : UserScroll(v)
    \/ OnScroll
    \/ \E index \in 0..(MaxSegments - 1) : Bottom(index)
    \/ \E index \in 0..(MaxSegments - 1) : Leave(index)
    \/ \E v \in Offsets, a \in BOOLEAN : ScrollTo(v, [animation |-> a])
    \/ Animate
    \/ Unmount
    \/ Tick

Spec == Init /\ [][Next]_vars

\* the props of a next render that differ from the latest in one prop
OneChange ==
    { p \in Props :
        \/ /\ p.renderConfig # props.renderConfig
           /\ p.fetchOnScroll = props.fetchOnScroll
           /\ p.fetchOnBottom = props.fetchOnBottom
        \/ /\ p.renderConfig = props.renderConfig
           /\ (p.fetchOnScroll = props.fetchOnScroll)
                # (p.fetchOnBottom = props.fetchOnBottom) }

\* the fetch dispatch of the instance under a host that also renders it again
\* with other props, one prop at a time: the events that reach scrollFetch,
\* onBottom and setCurrentFetchIndex (the scroll position, the imperative
\* scrollTo and the unmount read no props and are left to Spec)
NextHost ==
    \/ \E h \in Heights : Mount(h)
    \/ \E p \in OneChange : Rerender(p)
    \/ OnScroll
    \/ \E index \in 0..(MaxSegments - 1) : Bottom(index)
    \/ \E index \in 0..(MaxSegments - 1) : Leave(index)
    \/ Tick

SpecHost == Init /\ [][NextHost]_vars

\* ---- properties ---------------------------------------------------------
segmentCount == Len(props.renderConfig)

LastIndex == segmentCount - 1

EdgeSignal == ev.kind \in {"bottom", "leave"}

Advanced(before) == IF before + 1 > LastIndex THEN LastIndex ELSE before + 1

\* the first render's throttle drops a call made now
WindowClosed == throttleAge # Never /\ throttleAge < first.srcollInterval

\* the segment at i has a callable fetchMore in the configuration cfg
Callable(cfg, i) == typeofFetchMore(cfg, i, TRUE) = "function"

\* C1: activeSegmentIndex never decreases: no event stores a value lower than
\* the value held before it.
C1_NonDecreasing == [][currentFetchIndex' >= currentFetchIndex]_vars

\* C2: in every reachable state, for every segment count (zero included),
\* activeSegmentIndex is in [0, segmentCount-1] and no fault was raised.
C2_InRange ==
    /\ currentFetchIndex \in 0..LastIndex
    /\ ~fault

\* C2 as amended: with at least one segment activeSegmentIndex is in
\* [0, segmentCount-1]; with zero segments it keeps its initial value 0,
\* which no range [0, -1] contains; no event raises a fault.
C2_InRangeWhenSegments ==
    /\ segmentCount >= 1 => currentFetchIndex \in 0..LastIndex
    /\ segmentCount = 0 => currentFetchIndex = 0
    /\ ~fault

\* an edge signal asked for an index beyond the last one and was clamped
C2_Witness ==
    /\ EdgeSignal
    /\ ~props.fetchOnBottom
    /\ ev.index + 1 > LastIndex
    /\ currentFetchIndex = LastIndex
    /\ lastRaw # Never

\* C3: with fetchOnBottom = false, every bottom or leave signal, of whatever
\* segment, advances activeSegmentIndex by exactly 1 from its value before
\* (or leaves it at segmentCount-1).
C3_AdvanceByOne ==
    (EdgeSignal /\ ~props.fetchOnBottom)
        => currentFetchIndex = Advanced(ev.before)

\* C3 as amended: with fetchOnBottom = false, a bottom or leave signal of the
\* segment that is the active one advances activeSegmentIndex by exactly 1
\* (or leaves it at segmentCount-1).
C3_AdvanceFromActive ==
    (EdgeSignal /\ ~props.fetchOnBottom /\ ev.index = ev.before)
        => currentFetchIndex = Advanced(ev.before)

\* the leave signal of the active segment 1 moved the index to 2
C3_Witness ==
    /\ ev.kind = "leave"
    /\ ~props.fetchOnBottom
    /\ ev.index = 1
    /\ ev.before = 1
    /\ currentFetchIndex = 2

\* C4: once activeSegmentIndex is segmentCount-1, no later event changes it.
C4_StaysAtLast ==
    [][(segmentCount >= 1 /\ currentFetchIndex = LastIndex)
          => currentFetchIndex' = LastIndex]_vars

\* C5: two scroll-driven fetchMore invocations are at least scrollInterval
\* apart, so no window of scrollInterval holds more than one.
C5_OneFetchPerInterval ==
    (ev.kind = "scroll" /\ ev.called # NoSegment /\ ev.gap # Never)
        => ev.gap >= first.srcollInterval

\* a second scroll-driven invocation, exactly one default interval after the
\* one before it
C5_Witness ==
    /\ ev.kind = "scroll"
    /\ ev.called # NoSegment
    /\ first.srcollInterval = DefaultSrcollInterval
    /\ ev.gap = first.srcollInterval
    /\ scrollTop # 0

\* C6: with fetchOnBottom = true, a bottom signal of segment k invokes the
\* fetchMore of segment k (when it has one) and no other, also while the scroll
\* throttle drops calls.
C6_BottomFetchesOwnSegment ==
    (ev.kind = "bottom" /\ props.fetchOnBottom)
        => ev.called = (IF Callable(props.renderConfig, ev.index)
                        THEN ev.index ELSE NoSegment)

\* a bottom signal of a segment other than the active one fetched while the
\* throttle window was closed
C6_Witness ==
    /\ ev.kind = "bottom"
    /\ props.fetchOnBottom
    /\ ev.called = ev.index
    /\ ev.index # currentFetchIndex
    /\ WindowClosed

\* C7: with fetchOnBottom = false, a bottom or leave signal invokes no
\* fetchMore; an invocation in that mode is made by a scroll event.
C7_EdgeNeverFetches ==
    ~props.fetchOnBottom
        => /\ EdgeSignal => ev.called = NoSegment
           /\ ev.called # NoSegment => ev.kind = "scroll"

\* a leave signal of a segment that has a fetchMore moved the index and
\* invoked nothing
C7_Witness ==
    /\ ev.kind = "leave"
    /\ ~props.fetchOnBottom
    /\ Callable(props.renderConfig, ev.index)
    /\ ev.called = NoSegment
    /\ currentFetchIndex # ev.before

\* C8: scrollTop is the raw offset of the last scroll event delivered (0
\* before the first), also when the throttle dropped that event's fetch.
C8_ScrollTopIsLastRaw ==
    scrollTop = (IF lastRaw = Never THEN 0 ELSE lastRaw)

\* a scroll event whose fetch the throttle dropped changed scrollTop
C8_Witness ==
    /\ ev.kind = "scroll"
    /\ WindowClosed
    /\ throttleAge # 0
    /\ first.fetchOnScroll
    /\ Callable(first.renderConfig, currentFetchIndex)
    /\ ev.called = NoSegment
    /\ scrollTop # 0
    /\ scrollTop = divScrollTop

\* C9: a scroll event invokes only the fetchMore of the segment at
\* activeSegmentIndex.
C9_ScrollFetchesActive ==
    (ev.kind = "scroll" /\ ev.called # NoSegment)
        => ev.called = currentFetchIndex

\* a scroll event invoked the fetchMore of segment 2 after the index moved
C9_Witness ==
    /\ ev.kind = "scroll"
    /\ ev.called = 2
    /\ currentFetchIndex = 2

\* C10: when the segment at activeSegmentIndex has no callable fetchMore, a
\* scroll event invokes nothing, raises nothing, leaves activeSegmentIndex as
\* it was and still updates scrollTop.
C10_NoHookNoOp ==
    (ev.kind = "scroll" /\ ~Callable(first.renderConfig, currentFetchIndex))
        => /\ ev.called = NoSegment
           /\ ~fault
           /\ currentFetchIndex = ev.before
           /\ scrollTop = lastRaw

\* the throttle let a scroll event through while the active segment, which
\* exists, has no fetchMore
C10_Witness ==
    /\ ev.kind = "scroll"
    /\ first.fetchOnScroll
    /\ HasItem(first.renderConfig, currentFetchIndex)
    /\ ~IsFunction(first.renderConfig, currentFetchIndex)
    /\ throttleAge = 0
    /\ ev.called = NoSegment
    /\ scrollTop # 0

\* C11: with fetchOnScroll disabled no scroll event ever invokes a fetchMore,
\* and every scroll event still updates scrollTop.
C11_DisabledNeverFetches ==
    ~first.fetchOnScroll
        => /\ fetchAge = Never
           /\ ev.kind = "scroll" => (ev.called = NoSegment /\ scrollTop = lastRaw)

\* the throttle let a scroll event through, the active segment has a
\* fetchMore, the flag is off: scrollTop moved and nothing was invoked
C11_Witness ==
    /\ ~first.fetchOnScroll
    /\ ~props.fetchOnScroll
    /\ ev.kind = "scroll"
    /\ throttleAge = 0
    /\ Callable(first.renderConfig, currentFetchIndex)
    /\ currentFetchIndex = 1
    /\ scrollTop # 0

C13_RenderGate ==
    /\ _height = 0
        => /\ DOMAIN Children = {}
           /\ ~EdgeSignal
           /\ currentFetchIndex = 0
    /\ (phase = "mounted" /\ _height > 0)
        => /\ DOMAIN Children = 0..LastIndex
           /\ \A index \in DOMAIN Children :
                 /\ Children[index].outerHeight = _height
                 /\ Children[index].scrollTop = scrollTop

\* three segments rendered after a measure, one of them signalled its bottom,
\* and the scroll offset they are given has moved
C13_Witness ==
    /\ phase = "mounted"
    /\ _height = MaxHeight
    /\ DOMAIN Children = {0, 1, 2}
    /\ Children[2].scrollTop = MaxOffset
    /\ ev.kind = "bottom"

\* C14: a scrollTo called while divRef.current is not attached raises
\* nothing and changes neither the container position (nor starts a scroll of
\* it), nor scrollTop, _height or activeSegmentIndex.
C14_UnattachedScrollToNoOp ==
    [][(/\ ~divRef
        /\ \E val \in Offsets, a \in BOOLEAN : ScrollTo(val, [animation |-> a]))
          => /\ UNCHANGED <<divScrollTop, divTarget, scrollTop, _height,
                            currentFetchIndex>>
             /\ ~fault']_vars

\* an animated scrollTo to another offset was called after the unmount and
\* the container stayed where it was
C14_Witness ==
    /\ phase = "unmounted"
    /\ ~divRef
    /\ ev.kind = "scrollTo"
    /\ ev.animation
    /\ ev.val # divScrollTop
    /\ divTarget = Never
    /\ scrollTop # 0
    /\ currentFetchIndex = 2

\* the offset at which the container comes to rest if left alone
Committed == IF divTarget # Never THEN divTarget ELSE divScrollTop

\* C15: with the container attached, scrollTo(val) commits the container to
\* the offset val with and without animation, raising nothing; the flag only
\* decides whether the container is moved at once or scrolls there.
C15_SameTargetEitherWay ==
    [][\A val \in Offsets, a \in BOOLEAN :
         (divRef /\ ScrollTo(val, [animation |-> a]))
            => /\ Committed' = val
               /\ ~fault'
               /\ ~a => (divScrollTop' = val /\ divTarget' = Never)
               /\ (a /\ val # divScrollTop)
                    => (divScrollTop' = divScrollTop /\ divTarget' = val)]_vars

\* an animated scrollTo is on its way to an offset the container is not at
C15_Witness ==
    /\ divRef
    /\ ev.kind = "scrollTo"
    /\ ev.animation
    /\ ev.val = MaxOffset
    /\ divTarget = ev.val
    /\ divScrollTop # ev.val

\* C16: with fetchOnBottom = true the leave signal of a segment invokes no
\* fetchMore and leaves activeSegmentIndex as it was; the bottom signal is
\* the one that fetches.
C16_LeaveNotWired ==
    props.fetchOnBottom
        => /\ ev.kind = "leave"
                => (ev.called = NoSegment /\ currentFetchIndex = ev.before)
           /\ (EdgeSignal /\ ev.called # NoSegment) => ev.kind = "bottom"

\* segment 1, which has a fetchMore, was scrolled past in that mode
C16_Witness ==
    /\ props.fetchOnBottom
    /\ ev.kind = "leave"
    /\ ev.index = 1
    /\ Callable(props.renderConfig, 1)
    /\ ev.called = NoSegment

\* C17: with zero segments no event raises a fault, no fetchMore is ever
\* invoked, no segment is rendered and no edge signal fires.
C17_ZeroSegments ==
    segmentCount = 0
        => /\ ~fault
           /\ fetchAge = Never
           /\ ev.called = NoSegment
           /\ DOMAIN Children = {}
           /\ ~EdgeSignal
           /\ currentFetchIndex = 0

\* an empty list was measured and a scroll event went through its throttle
\* with fetchOnScroll enabled
C17_Witness ==
    /\ segmentCount = 0
    /\ phase = "mounted"
    /\ _height = MaxHeight
    /\ first.fetchOnScroll
    /\ ev.kind = "scroll"
    /\ throttleAge = 0
    /\ scrollTop = MaxOffset

\* what an edge signal of segment index stores: min(index + 1, segmentCount - 1)
Stored(index) == IF index + 1 < LastIndex THEN index + 1 ELSE LastIndex

\* C18: with fetchOnBottom = false a bottom or leave signal of segment k
\* stores min(k+1, segmentCount-1) whatever value was held; a second signal
\* of the same segment therefore changes nothing.
C18_StoresNextOfSignalling ==
    (EdgeSignal /\ ~props.fetchOnBottom)
        => /\ currentFetchIndex = Stored(ev.index)
           /\ ev.before = Stored(ev.index) => currentFetchIndex = ev.before

\* the leave signal of segment 0 brought the index from 2 down to 1
C18_Witness ==
    /\ ev.kind = "leave"
    /\ ~props.fetchOnBottom
    /\ ev.index = 0
    /\ ev.before = 2
    /\ currentFetchIndex = 1

\* C19: with fetchOnBottom = true activeSegmentIndex keeps its initial value
\* 0, so every scroll-driven invocation is of the fetchMore of segment 0.
C19_IndexStaysZero ==
    props.fetchOnBottom
        => /\ currentFetchIndex = 0
           /\ ev.before = 0
           /\ (ev.kind = "scroll" /\ ev.called # NoSegment) => ev.called = 0

\* with three segments in that mode, a scroll event at the far offset invoked
\* the fetchMore of segment 0
C19_Witness ==
    /\ props.fetchOnBottom
    /\ first.fetchOnScroll
    /\ segmentCount = 3
    /\ ev.kind = "scroll"
    /\ ev.called = 0
    /\ scrollTop = MaxOffset

\* C20: whatever props the host has rendered since, a scroll event that the
\* first render's throttle lets through invokes the fetchMore that the first
\* render's renderConfig has at activeSegmentIndex, under the first render's
\* fetchOnScroll; a bottom signal fetches from, and an edge signal clamps to,
\* the renderConfig of the latest render.
C20_StaleScrollLatestEdges ==
    [][/\ OnScroll
          => ev'.called =
               (IF /\ throttleOpen(throttleAge, first.srcollInterval)
                   /\ first.fetchOnScroll
                   /\ Callable(first.renderConfig, currentFetchIndex)
                THEN currentFetchIndex ELSE NoSegment)
       /\ \A index \in Segments :
            /\ (Bottom(index) /\ props.fetchOnBottom)
                 => ev'.called = (IF Callable(props.renderConfig, index)
                                  THEN index ELSE NoSegment)
            /\ ((Bottom(index) \/ Leave(index)) /\ ~props.fetchOnBottom)
                 => currentFetchIndex' = Stored(index)]_vars

\* after a render with another renderConfig and fetchOnScroll off, a scroll
\* event invoked the fetchMore of segment 1, which only the first render's
\* renderConfig has
C20_Witness ==
    /\ ev.kind = "scroll"
    /\ ev.called = 1
    /\ currentFetchIndex = 1
    /\ first.renderConfig # props.renderConfig
    /\ ~Callable(props.renderConfig, 1)
    /\ ~props.fetchOnScroll

====
